---- MODULE Spec2Model ----
(***************************************************************************)
(* Model of orbiton's live-development core: the HMR change-tracking state *)
(* (src/src/hmr.rs), the file-watch coordinator of the dev command         *)
(* (src/src/commands/dev.rs), the broadcast channel, WebSocket endpoint    *)
(* and asset server of the dev server (src/src/dev_server.rs), the HTML    *)
(* injection (src/src/hmr_inject.rs), the maintenance objects              *)
(* (src/src/maintenance.rs, src/src/dev_maintenance.rs) and the port check *)
(* of the configuration (src/src/config.rs).                               *)
(*                                                                         *)
(* Time is a clock in milliseconds.  Path and module strings are sequences *)
(* of tokens ("src", "/", ".rs", ...), cut so that every substring the     *)
(* code searches for is a run of whole tokens.  Option<T> is <<>> (None)   *)
(* or <<x>> (Some(x)).                                                     *)
(*                                                                         *)
(* The coordinator thread handles an event in no time unless it is blocked *)
(* in the build: the clock advances only while the coordinator waits on an *)
(* empty queue or for the build collaborator to return.                    *)
(***************************************************************************)
EXTENDS FiniteSets, Integers, Naturals, Sequences, TLC

VARIABLES
    now,            \* the monotonic clock (Instant::now()), in ms
    phase,          \* position of execute(): "new", "started", "watching"
    server_tx,      \* DevServer.tx of the server built by execute()
    coord_tx,       \* DevServer.tx of the clone the coordinator owns
    chan,           \* messages accepted by the broadcast channel, in order
    clients,        \* per WebSocket client: connection state and cursor
    modules,        \* HmrContext.modules: module id -> HmrUpdate
    last_rebuild,   \* HmrContext.last_rebuild: Option<Instant>
    queue,          \* the mpsc channel from the watcher to the coordinator
    lc_last_rebuild,\* the coordinator thread's local last_rebuild
    lc_now,         \* the coordinator's local `now` of the event in hand
    pc,             \* coordinator thread: "idle" or "building"
    published,      \* messages the coordinator passed to broadcast_update
    taken,          \* number of events the coordinator took from rx
    owed,           \* module ids taken from rx since the last build invocation
    rebuilds,       \* one record per rebuild_project invocation
    outstanding,    \* rebuild_project invocations that have not returned
    watch_started,  \* Option: when the coordinator thread was spawned
    last_call,      \* the last direct HmrContext API call: op, arg, ret
    pm_input,       \* paths still to be passed to record_file_change
    threads,        \* concurrent HmrContext callers: call in progress, step
    locks,          \* holder of each HmrContext mutex, 0 when free
    calls,          \* the concurrent callers' calls, in order of invocation
    conns,          \* per WebSocket connection: handler, tasks, peer, cursor
    accepting,      \* whether run_websocket_server's accept loop is running
    last_publish,   \* the last call of a send_* method: handle, result
    last_frame,     \* the last item a connection's recv_task took
    http,           \* the HTTP loop: state, last request and response
    html,           \* inject_hmr_client: the document, calls made, last result
    maint_modules,  \* modules of the HmrContext a maintenance object owns
    cleanups,       \* per maintenance caller: cleanup_stale_updates in progress
    ports           \* the configured HTTP port, its validation, the WebSocket port

vars == <<now, phase, server_tx, coord_tx, chan, clients, modules,
          last_rebuild, queue, lc_last_rebuild, lc_now, pc, published,
          taken, owed, rebuilds, outstanding, watch_started, last_call,
          pm_input, threads, locks, calls, conns, accepting,
          last_publish, last_frame, http, html, maint_modules,
          cleanups, ports>>

hmrVars == <<modules, last_rebuild>>
hubVars == <<server_tx, coord_tx, chan, clients>>
coordVars == <<queue, lc_last_rebuild, lc_now, pc, published, taken, owed,
               rebuilds, outstanding, watch_started>>
concVars == <<threads, locks, calls>>
wsVars == <<conns, accepting, last_publish, last_frame>>
netVars == <<wsVars, http>>
maintVars == <<maint_modules, cleanups>>
sideVars == <<pm_input, html, maintVars, ports>>
auxVars == <<last_call, sideVars, concVars, netVars>>

-----------------------------------------------------------------------------
(* Bounds *)

MaxTime == 1500
TickMs == 250
MaxEvents == 3
MaxQueue == 2
MaxClients == 2
MaxPaths == 2
MaxThreads == 2
MaxCalls == 3
MaxPieces == 3
MaxInjects == 2

(* Program constants *)

DEBOUNCE_TIME == 500
DEFAULT_DEV_PORT == 3000
PORT_BITS == 16
CHANNEL_CAPACITY == 16

-----------------------------------------------------------------------------
(* Options and small helpers *)

None == <<>>
Some(x) == <<x>>
IsSome(o) == o # <<>>
Unwrap(o) == o[1]

ClientIds == 1..MaxClients

ThreadIds == 1..MaxThreads

\* The two mutexes of HmrContext.
LockNames == {"modules", "last_rebuild"}

\* A connection slot no peer has used.
NoConnection ==
    [stage |-> "none", hello |-> 0, send_task |-> "none", recv_task |-> "none",
     peer |-> "none", stalled |-> FALSE, behind |-> 0]

\* What a call of inject_hmr_client comes to: Ok(text), or a panic.
InjectOk(text) == [panic |-> FALSE, text |-> text]
InjectPanic == [panic |-> TRUE, text |-> <<>>]

\* No call of inject_hmr_client made yet on document doc.
NoInject(doc) ==
    [doc |-> doc, calls |-> 0, input |-> <<>>, at |-> 0, out |-> InjectOk(doc)]

\* A configured port that has not been validated or used.
NoPorts(port) == [port |-> port, valid |-> None, ws |-> None]

\* A maintenance caller that is not inside cleanup_stale_updates.
NoCleanup == [step |-> "idle", max_age |-> 0, count |-> 0]

\* A caller with no call in progress.
Idle == [call |-> 0, step |-> 0, locked |-> FALSE]

Last(s) == s[Len(s)]

-----------------------------------------------------------------------------
(* Paths *)

ProjectRoot == <<"/", "project">>

ExtTokens == {".rs", ".orbit", ".png"}

ExtName(tok) ==
    CASE tok = ".rs" -> "rs"
      [] tok = ".orbit" -> "orbit"
      [] tok = ".png" -> "png"
      [] OTHER -> ""

PathA == <<"/", "project", "/", "src", "/", "a", ".rs">>
PathB == <<"/", "project", "/", "src", "/", "b", ".orbit">>
PathLogo == <<"/", "project", "/", "assets", "/", "logo", ".png">>

\* Paths handed to record_file_change directly: other roots, directories
\* and file names that hold "src/", ".rs" or a backslash, files without a
\* (source) extension.
OtherRoots == {<<"/", "other">>, <<"/", "project", "-x">>}

DirInputs ==
    { <<>>,
      <<"src", "/">>,
      <<"assets", "/">>,
      <<"src", "/", "my", "src", "/">>,
      <<"src", "/", "src", "/">>,
      <<"src", "/", "a", ".rs", "/">>,
      <<"src", "\\">> }

FileInputs ==
    { <<"a", ".rs">>, <<"b", ".orbit">>, <<"logo", ".png">>, <<"Makefile">>,
      <<"a", ".rs", ".orbit">>, <<".rs">> }

PathInputs ==
    {ProjectRoot \o <<"/">> \o d \o f : d \in DirInputs, f \in FileInputs}
      \cup {r \o <<"/", "src", "/", "a", ".rs">> : r \in OtherRoots}

\* The watch events the watcher can deliver: (paths, kind).
EventInputs ==
    { [paths |-> <<PathA>>, kind |-> "ModifyAny"],
      [paths |-> <<PathB, PathLogo>>, kind |-> "CreateFile"],
      [paths |-> <<PathLogo>>, kind |-> "ModifyAny"] }

\* Path::strip_prefix: component-wise, None when `base` is not a prefix.
StripPrefix(path, base) ==
    IF path = base THEN Some(<<>>)
    ELSE IF /\ Len(path) > Len(base) + 1
            /\ SubSeq(path, 1, Len(base)) = base
            /\ path[Len(base) + 1] = "/"
         THEN Some(SubSeq(path, Len(base) + 2, Len(path)))
         ELSE None

\* Path::extension: the part of the file name after its last dot.
Extension(path) ==
    IF /\ Len(path) >= 2
       /\ path[Len(path)] \in ExtTokens
       /\ path[Len(path) - 1] # "/"
    THEN Some(ExtName(path[Len(path)]))
    ELSE None

StartsWith(s, pat) ==
    /\ Len(s) >= Len(pat)
    /\ SubSeq(s, 1, Len(pat)) = pat

\* str::replace(pat, ""): every non-overlapping occurrence, left to right.
RECURSIVE Remove(_, _)
Remove(s, pat) ==
    IF s = <<>> THEN <<>>
    ELSE IF StartsWith(s, pat)
         THEN Remove(SubSeq(s, Len(pat) + 1, Len(s)), pat)
         ELSE <<Head(s)>> \o Remove(Tail(s), pat)

\* to_string_lossy().replace('\\', "/")
NormalizeSeparators(s) ==
    [i \in 1..Len(s) |-> IF s[i] = "\\" THEN "/" ELSE s[i]]

\* ext_str == "rs" || ext_str == "orbit"
IsSourceExt(ext_str) ==
    ext_str = "rs" \/ ext_str = "orbit"

\* The module id record_file_change derives from a path, or None.
ModuleOf(path) ==
    LET rel == StripPrefix(path, ProjectRoot)
    IN  IF ~IsSome(rel) THEN None
        ELSE LET path_str == NormalizeSeparators(Unwrap(rel))
                 ext == Extension(path)
             IN  IF ~IsSome(ext) THEN None
                 ELSE IF IsSourceExt(Unwrap(ext))
                      THEN IF StartsWith(path_str, <<"src", "/">>)
                           THEN Some(Remove(Remove(Remove(path_str,
                                        <<"src", "/">>), <<".rs">>), <<".orbit">>))
                           ELSE None
                      ELSE None

-----------------------------------------------------------------------------
(* HmrContext (src/src/hmr.rs), as operators on the value of `modules` *)

HmrUpdate(m, t) == [module |-> m, timestamp |-> t, is_updated |-> FALSE]

Insert_or_keep(mods, k, v) ==
    [x \in (DOMAIN mods) \cup {k} |-> IF x \in DOMAIN mods THEN mods[x] ELSE v]

\* HashMap::insert
Insert(mods, k, v) ==
    [x \in (DOMAIN mods) \cup {k} |-> IF x = k THEN v ELSE mods[x]]

record_file_change(mods, path, t) ==
    LET module == ModuleOf(path)
    IN  IF IsSome(module)
        THEN Insert(mods, Unwrap(module), HmrUpdate(Unwrap(module), t))
        ELSE mods

mark_modules_updated_purge(mods) ==
    [k \in {x \in DOMAIN mods : FALSE} |-> mods[k]]

mark_modules_updated_first(mods) ==
    IF DOMAIN mods = {} THEN mods
    ELSE LET k0 == CHOOSE k \in DOMAIN mods : TRUE
         IN  [mods EXCEPT ![k0].is_updated = TRUE]

mark_modules_updated(mods) ==
    [k \in DOMAIN mods |-> [mods[k] EXCEPT !.is_updated = TRUE]]

needs_update_all(mods) ==
    \A k \in DOMAIN mods : ~mods[k].is_updated

needs_update(mods) ==
    \E k \in DOMAIN mods : ~mods[k].is_updated

get_pending_updates(mods) ==
    {mods[k].module : k \in {x \in DOMAIN mods : ~mods[x].is_updated}}

DebounceGate_off(instant, t, debounce_time) ==
    FALSE

DebounceGate_inclusive(instant, t, debounce_time) ==
    t - instant <= debounce_time

\* instant.elapsed() < debounce_time
DebounceGate(instant, t, debounce_time) ==
    t - instant < debounce_time

should_rebuild(mods, last, t, debounce_time) ==
    IF IsSome(last) /\ DebounceGate(Unwrap(last), t, debounce_time)
    THEN FALSE
    ELSE needs_update(mods)

record_rebuild_no_mark(mods, last, t) ==
    [last_rebuild |-> Some(t), modules |-> mods]

\* record_rebuild: last_rebuild = Some(now), then mark_modules_updated.
record_rebuild(mods, last, t) ==
    [last_rebuild |-> Some(t), modules |-> mark_modules_updated(mods)]

clear_applied(mods) ==
    [k \in {x \in DOMAIN mods : ~mods[x].is_updated} |-> mods[k]]

clear(mods) == <<>>

\* The return value of record_file_change.
record_file_change_ret(path) == ModuleOf(path)

get_stale_updates_inclusive(mods, t, max_age) ==
    {mods[k].module : k \in {x \in DOMAIN mods : t - mods[x].timestamp >= max_age}}

\* get_stale_updates(max_age): the modules whose age exceeds max_age,
\* applied or not.  (Called by the maintenance code; defined outside the
\* sources at hand.)
get_stale_updates(mods, t, max_age) ==
    {mods[k].module : k \in {x \in DOMAIN mods : t - mods[x].timestamp > max_age}}

\* clear_stale_updates(max_age): removes the stale entries.
clear_stale_updates(mods, t, max_age) ==
    [k \in {x \in DOMAIN mods : mods[x].module \notin get_stale_updates(mods, t, max_age)}
        |-> mods[k]]

-----------------------------------------------------------------------------
(* Wire messages (serde_json::json! objects) *)

\* format!("{:?}", event.kind)
FormatKind(kind) ==
    CASE kind = "ModifyAny" -> "Modify(Any)"
      [] kind = "CreateFile" -> "Create(File)"
      [] OTHER -> "Any"

\* p.strip_prefix(&pdir).unwrap_or(p)
RelativePath(p) ==
    LET rel == StripPrefix(p, ProjectRoot)
    IN  IF IsSome(rel) THEN Unwrap(rel) ELSE p

FileChangeMsg(event) ==
    [type |-> "fileChange",
     paths |-> [i \in 1..Len(event.paths) |-> RelativePath(event.paths[i])],
     kind |-> FormatKind(event.kind)]

RebuildMsg(status) == [type |-> "rebuild", status |-> status]

HmrMsg(mods) == [type |-> "hmr", modules |-> mods]

ReloadMsg == [type |-> "reload"]

-----------------------------------------------------------------------------
(* The broadcast channel (tokio::sync::broadcast) and DevServer *)

\* Receivers of the channel: the accept loop's ws_rx and one per connection.
ReceiverCount ==
    (IF phase = "new" THEN 0 ELSE 1)
      + Cardinality({c \in ClientIds : clients[c].state = "open"})

\* DevServer::broadcast_update: the channel after the call.  A DevServer
\* whose tx is None returns Ok without sending; Sender::send fails, and
\* queues nothing, when the channel has no receiver.
broadcast_update(tx, ch, receivers, message) ==
    IF IsSome(tx)
    THEN IF receivers > 0 THEN Append(ch, message) ELSE ch
    ELSE ch

RECURSIVE BroadcastAll(_, _, _, _)
BroadcastAll(tx, ch, receivers, msgs) ==
    IF msgs = <<>> THEN ch
    ELSE BroadcastAll(tx, broadcast_update(tx, ch, receivers, Head(msgs)),
                      receivers, Tail(msgs))

\* DevServer::start: self.tx.take() moves the sender into the server thread,
\* which subscribes ws_rx and starts the accept loop and the HTTP loop.
Start ==
    /\ phase = "new"
    /\ phase' = "started"
    /\ server_tx' = None
    /\ accepting' = TRUE
    /\ http' = [http EXCEPT !.state = "serving"]
    /\ UNCHANGED <<now, coord_tx, chan, clients, hmrVars, coordVars, last_call,
                   sideVars, concVars, conns, last_publish, last_frame>>

\* run_websocket_server accepts a connection: handshake, rx.resubscribe()
\* (the cursor starts at the tail), spawn handle_websocket_connection.
AcceptConnection(c) ==
    /\ phase # "new"
    /\ clients[c].state = "none"
    /\ clients' = [clients EXCEPT ![c] = [state |-> "open", next |-> Len(chan) + 1]]
    /\ UNCHANGED <<now, phase, server_tx, coord_tx, chan, hmrVars, coordVars,
                   auxVars>>

\* The peer closes: the connection's tasks end and its receiver is dropped.
ConnectionClosed(c) ==
    /\ clients[c].state = "open"
    /\ clients' = [clients EXCEPT ![c] = [state |-> "none", next |-> 0]]
    /\ UNCHANGED <<now, phase, server_tx, coord_tx, chan, hmrVars, coordVars,
                   auxVars>>

-----------------------------------------------------------------------------
(* The coordinator (setup_file_watching, src/src/commands/dev.rs) *)

\* setup_file_watching: server.clone() copies tx as it is now; the spawned
\* thread starts with last_rebuild = Instant::now().
SetupFileWatching ==
    /\ phase = "started"
    /\ phase' = "watching"
    /\ coord_tx' = server_tx
    /\ lc_last_rebuild' = now
    /\ watch_started' = Some(now)
    /\ UNCHANGED <<now, server_tx, chan, clients, hmrVars, queue, lc_now, pc,
                   published, taken, owed, rebuilds, outstanding, auxVars>>

RECURSIVE ModulesOfPaths(_)
ModulesOfPaths(paths) ==
    IF paths = <<>> THEN {}
    ELSE LET m == ModuleOf(Head(paths))
         IN  (IF IsSome(m) THEN {Unwrap(m)} ELSE {}) \cup ModulesOfPaths(Tail(paths))

\* The watcher callback: tx.send(event) into the mpsc channel.
Notify(e) ==
    /\ phase = "watching"
    /\ Len(queue) < MaxQueue
    /\ taken + Len(queue) < MaxEvents
    /\ queue' = Append(queue, [paths |-> e.paths, kind |-> e.kind, at |-> now,
                               in_build |-> pc = "building"])
    /\ UNCHANGED <<now, phase, hubVars, hmrVars, lc_last_rebuild, lc_now, pc,
                   published, taken, owed, rebuilds, outstanding, watch_started,
                   auxVars>>

DebounceSkip_off(t, last) ==
    FALSE

\* now.duration_since(last_rebuild) < DEBOUNCE_TIME
DebounceSkip(t, last) ==
    t - last < DEBOUNCE_TIME

\* for path in &event.paths { hmr_context.record_file_change(path) }
RECURSIVE RecordAll(_, _, _)
RecordAll(mods, paths, t) ==
    IF paths = <<>> THEN mods
    ELSE RecordAll(record_file_change(mods, Head(paths), t), Tail(paths), t)

\* One iteration of `for event in rx`, up to the call of rebuild_project.
ProcessEvent ==
    /\ phase = "watching"
    /\ pc = "idle"
    /\ queue # <<>>
    /\ LET event == Head(queue)
           skip == DebounceSkip(now, lc_last_rebuild)
           mods1 == RecordAll(modules, event.paths, now)
           rebuild == should_rebuild(mods1, last_rebuild, now, DEBOUNCE_TIME)
           msgs == IF skip THEN <<>>
                   ELSE <<FileChangeMsg(event)>>
                        \o (IF rebuild THEN <<RebuildMsg("started")>> ELSE <<>>)
       IN  /\ queue' = Tail(queue)
           /\ taken' = taken + 1
           /\ lc_now' = now
           /\ published' = published \o msgs
           /\ chan' = BroadcastAll(coord_tx, chan, ReceiverCount, msgs)
           /\ modules' = IF skip THEN modules ELSE mods1
           /\ IF ~skip /\ rebuild
              THEN /\ lc_last_rebuild' = now
                   /\ pc' = "building"
                   /\ outstanding' = outstanding + 1
                   /\ owed' = {}
                   /\ rebuilds' = Append(rebuilds,
                          [started_at |-> now, arrived_at |-> event.at,
                           trigger |-> taken + 1,
                           pending |-> get_pending_updates(mods1),
                           result |-> "running"])
              ELSE /\ owed' = owed \cup ModulesOfPaths(event.paths)
                   /\ UNCHANGED <<lc_last_rebuild, pc, outstanding, rebuilds>>
    /\ UNCHANGED <<now, phase, server_tx, coord_tx, clients, last_rebuild,
                   watch_started, auxVars>>

RebuildOutcome_always(rebuild_status, mods, last, t) ==
    record_rebuild(mods, last, t)

\* if rebuild_status { hmr_context.record_rebuild() }
RebuildOutcome(rebuild_status, mods, last, t) ==
    IF rebuild_status
    THEN record_rebuild(mods, last, t)
    ELSE [last_rebuild |-> last, modules |-> mods]

OutcomeMsgs_reload_always(rebuild_status, affected_modules) ==
    <<RebuildMsg(IF rebuild_status THEN "completed" ELSE "failed"), ReloadMsg>>

\* What the coordinator publishes once rebuild_project has returned: the
\* status, then the hmr update (if any module is pending) or the reload.
OutcomeMsgs(rebuild_status, affected_modules) ==
    <<RebuildMsg(IF rebuild_status THEN "completed" ELSE "failed")>>
      \o (IF rebuild_status
          THEN IF affected_modules # {}
               THEN <<HmrMsg(affected_modules)>> ELSE <<>>
          ELSE <<ReloadMsg>>)

\* rebuild_project returns; the rest of the loop iteration.
BuildReturns(rebuild_status) ==
    /\ pc = "building"
    /\ LET after == RebuildOutcome(rebuild_status, modules, last_rebuild, now)
           affected_modules == get_pending_updates(after.modules)
           msgs == OutcomeMsgs(rebuild_status, affected_modules)
       IN  /\ modules' = after.modules
           /\ last_rebuild' = after.last_rebuild
           /\ published' = published \o msgs
           /\ chan' = BroadcastAll(coord_tx, chan, ReceiverCount, msgs)
           /\ rebuilds' = [rebuilds EXCEPT ![Len(rebuilds)].result =
                              IF rebuild_status THEN "ok" ELSE "failed"]
    /\ pc' = "idle"
    /\ outstanding' = outstanding - 1
    /\ UNCHANGED <<now, phase, server_tx, coord_tx, clients, queue,
                   lc_last_rebuild, lc_now, taken, owed, watch_started, auxVars>>

\* Time passes.  The coordinator handles a queued event at once, so the
\* clock moves only while it waits for an event or for the build.
Tick ==
    /\ now + TickMs <= MaxTime
    /\ phase = "watching" => (pc = "building" \/ queue = <<>>)
    /\ now' = now + TickMs
    /\ UNCHANGED <<phase, hubVars, hmrVars, coordVars, auxVars>>

-----------------------------------------------------------------------------
(* The dev command: execute() *)

NoCall == [op |-> "none", arg |-> None, ret |-> None, before |-> <<>>]

InitRest ==
    /\ now = 0
    /\ phase = "new"
    /\ server_tx = Some("tx")
    /\ coord_tx = None
    /\ chan = <<>>
    /\ clients = [c \in ClientIds |-> [state |-> "none", next |-> 0]]
    /\ modules = <<>>
    /\ last_rebuild = None
    /\ queue = <<>>
    /\ lc_last_rebuild = 0
    /\ lc_now = 0
    /\ pc = "idle"
    /\ published = <<>>
    /\ taken = 0
    /\ owed = {}
    /\ rebuilds = <<>>
    /\ outstanding = 0
    /\ watch_started = None
    /\ last_call = NoCall
    /\ threads = [t \in ThreadIds |-> Idle]
    /\ locks = [l \in LockNames |-> 0]
    /\ calls = <<>>
    /\ conns = [c \in ClientIds |-> NoConnection]
    /\ accepting = FALSE
    /\ last_publish = "none"
    /\ last_frame = None
    /\ http = [state |-> "down", request |-> None, response |-> None]
    /\ maint_modules = <<>>
    /\ cleanups = [t \in ThreadIds |-> NoCleanup]

Init ==
    /\ InitRest
    /\ pm_input = <<>>
    /\ html = NoInject(<<>>)
    /\ ports = NoPorts(DEFAULT_DEV_PORT)

Next ==
    \/ Start
    \/ \E c \in ClientIds : AcceptConnection(c)
    \/ \E c \in ClientIds : ConnectionClosed(c)
    \/ SetupFileWatching
    \/ \E e \in EventInputs : Notify(e)
    \/ ProcessEvent
    \/ \E rebuild_status \in BOOLEAN : BuildReturns(rebuild_status)
    \/ Tick

Spec == Init /\ [][Next]_vars

-----------------------------------------------------------------------------
(* HmrContext driven directly through its API, as the tests do *)

ApiPaths == {PathA, PathB, PathLogo}

MaxAgeInputs == {0, 250, 1000}

ApiRecordFileChange(p) ==
    /\ modules' = record_file_change(modules, p, now)
    /\ last_call' = [op |-> "record_file_change", arg |-> Some(p),
                     ret |-> record_file_change_ret(p), before |-> modules]
    /\ UNCHANGED <<now, phase, hubVars, netVars, last_rebuild, coordVars, sideVars,
                   concVars>>

ApiMarkModulesUpdated ==
    /\ modules' = mark_modules_updated(modules)
    /\ last_call' = [NoCall EXCEPT !.op = "mark_modules_updated", !.before = modules]
    /\ UNCHANGED <<now, phase, hubVars, netVars, last_rebuild, coordVars, sideVars,
                   concVars>>

ApiRecordRebuild ==
    /\ LET after == record_rebuild(modules, last_rebuild, now)
       IN  /\ modules' = after.modules
           /\ last_rebuild' = after.last_rebuild
    /\ last_call' = [NoCall EXCEPT !.op = "record_rebuild", !.before = modules]
    /\ UNCHANGED <<now, phase, hubVars, netVars, coordVars, sideVars, concVars>>

ApiClear ==
    /\ modules' = clear(modules)
    /\ last_call' = [NoCall EXCEPT !.op = "clear", !.before = modules]
    /\ UNCHANGED <<now, phase, hubVars, netVars, last_rebuild, coordVars, sideVars,
                   concVars>>

ApiClearStaleUpdates(max_age) ==
    /\ modules' = clear_stale_updates(modules, now, max_age)
    /\ last_call' = [NoCall EXCEPT !.op = "clear_stale_updates",
                                   !.arg = Some(max_age),
                                   !.before = modules]
    /\ UNCHANGED <<now, phase, hubVars, netVars, last_rebuild, coordVars, sideVars,
                   concVars>>

-----------------------------------------------------------------------------
(* HmrContext shared by concurrent callers: each call is the sequence of
   critical sections its code runs on the two mutexes.  The calls happen
   within one clock tick, inside any debounce period. *)

\* The calls a caller can make.
CallInputs ==
    { [op |-> "record_file_change", arg |-> PathA],
      [op |-> "mark_modules_updated", arg |-> None],
      [op |-> "needs_update", arg |-> None],
      [op |-> "get_pending_updates", arg |-> None],
      [op |-> "record_rebuild", arg |-> None],
      [op |-> "should_rebuild", arg |-> DEBOUNCE_TIME],
      [op |-> "clear", arg |-> None] }

LockPlan_opposite(op) ==
    IF op = "should_rebuild"
    THEN << [needs |-> "modules", keeps |-> {"modules"}],
            [needs |-> "last_rebuild", keeps |-> {}] >>
    ELSE IF op = "record_rebuild"
         THEN << [needs |-> "last_rebuild", keeps |-> {"last_rebuild"}],
                 [needs |-> "modules", keeps |-> {}] >>
         ELSE << [needs |-> "modules", keeps |-> {}] >>

\* The mutex each critical section of a call locks, and the mutexes the
\* caller still holds when the section ends.
LockPlan(op) ==
    CASE op = "record_rebuild" ->
           << [needs |-> "last_rebuild", keeps |-> {"last_rebuild"}],
              [needs |-> "modules", keeps |-> {}] >>
      [] op = "should_rebuild" ->
           << [needs |-> "last_rebuild", keeps |-> {}],
              [needs |-> "modules", keeps |-> {}] >>
      [] OTHER ->
           << [needs |-> "modules", keeps |-> {}] >>

\* What a critical section does to modules and last_rebuild, what the call
\* returns if it ends there, and whether it returns early.
CriticalSection(op, arg, step, mods, last, t) ==
    CASE op = "record_file_change" ->
           [modules |-> record_file_change(mods, arg, t), last_rebuild |-> last,
            ret |-> record_file_change_ret(arg), early |-> FALSE]
      [] op = "mark_modules_updated" ->
           [modules |-> mark_modules_updated(mods), last_rebuild |-> last,
            ret |-> "ok", early |-> FALSE]
      [] op = "needs_update" ->
           [modules |-> mods, last_rebuild |-> last,
            ret |-> needs_update(mods), early |-> FALSE]
      [] op = "get_pending_updates" ->
           [modules |-> mods, last_rebuild |-> last,
            ret |-> get_pending_updates(mods), early |-> FALSE]
      [] op = "clear" ->
           [modules |-> clear(mods), last_rebuild |-> last,
            ret |-> "ok", early |-> FALSE]
      [] op = "record_rebuild" /\ step = 1 ->
           [modules |-> mods, last_rebuild |-> Some(t),
            ret |-> "ok", early |-> FALSE]
      [] op = "record_rebuild" /\ step = 2 ->
           [modules |-> mark_modules_updated(mods), last_rebuild |-> last,
            ret |-> "ok", early |-> FALSE]
      [] op = "should_rebuild" /\ step = 1 ->
           [modules |-> mods, last_rebuild |-> last, ret |-> FALSE,
            early |-> IsSome(last) /\ DebounceGate(Unwrap(last), t, arg)]
      [] op = "should_rebuild" /\ step = 2 ->
           [modules |-> mods, last_rebuild |-> last,
            ret |-> needs_update(mods), early |-> FALSE]

Returned == {i \in 1..Len(calls) : IsSome(calls[i].ret)}

\* A caller invokes an operation.
Call(t, c) ==
    /\ threads[t] = Idle
    /\ Len(calls) < MaxCalls
    /\ calls' = Append(calls, [op |-> c.op, arg |-> c.arg, ret |-> None,
                               after |-> Returned])
    /\ threads' = [threads EXCEPT ![t] = [call |-> Len(calls) + 1, step |-> 1,
                                          locked |-> FALSE]]
    /\ UNCHANGED <<now, phase, hubVars, netVars, hmrVars, coordVars, last_call,
                   sideVars, locks>>

\* Mutex::lock returns: the mutex was free (it is not reentrant).
Acquire(t) ==
    /\ threads[t].call # 0
    /\ ~threads[t].locked
    /\ LET need == LockPlan(calls[threads[t].call].op)[threads[t].step].needs
       IN  /\ locks[need] = 0
           /\ locks' = [locks EXCEPT ![need] = t]
    /\ threads' = [threads EXCEPT ![t].locked = TRUE]
    /\ UNCHANGED <<now, phase, hubVars, netVars, hmrVars, coordVars, last_call,
                   sideVars, calls>>

\* The caller runs the critical section and drops the guards that go out of
\* scope; the call returns after its last section or on an early return.
Critical(t) ==
    /\ threads[t].call # 0
    /\ threads[t].locked
    /\ LET i == threads[t].call
           step == threads[t].step
           plan == LockPlan(calls[i].op)
           cs == CriticalSection(calls[i].op, calls[i].arg, step, modules,
                                 last_rebuild, now)
           done == cs.early \/ step = Len(plan)
       IN  /\ modules' = cs.modules
           /\ last_rebuild' = cs.last_rebuild
           /\ locks' = [l \in LockNames |->
                          IF locks[l] = t /\ (done \/ l \notin plan[step].keeps)
                          THEN 0 ELSE locks[l]]
           /\ IF done
              THEN /\ calls' = [calls EXCEPT ![i].ret = Some(cs.ret)]
                   /\ threads' = [threads EXCEPT ![t] = Idle]
              ELSE /\ calls' = calls
                   /\ threads' = [threads EXCEPT ![t].step = step + 1,
                                                 ![t].locked = FALSE]
    /\ UNCHANGED <<now, phase, hubVars, netVars, coordVars, last_call, sideVars>>

NextConc ==
    \/ \E t \in ThreadIds, c \in CallInputs : Call(t, c)
    \/ \E t \in ThreadIds : Acquire(t)
    \/ \E t \in ThreadIds : Critical(t)

SpecConc == Init /\ [][NextConc]_vars

-----------------------------------------------------------------------------
(* The WebSocket endpoint (run_websocket_server, handle_websocket_connection)
   and a caller that publishes through a DevServer handle.  Each receiver is
   tracked by `behind`, the number of accepted messages it has not taken yet;
   past the capacity every value behaves alike, so it is kept up to
   CHANNEL_CAPACITY + 1. *)

outsideWs == <<now, chan, clients, hmrVars, coordVars, last_call, sideVars,
               concVars, http>>

PublishMethods ==
    {"broadcast_update", "send_hmr_update", "send_reload_command",
     "send_rebuild_status"}

\* The DevServer values a caller can hold: the one it built and a clone.
Handles == {"server", "clone"}

TxOf(handle) == IF handle = "server" THEN server_tx ELSE coord_tx

\* The connection still owns its broadcast::Receiver: the handler before the
\* tasks are spawned, then send_task until it ends.
Subscribed(conn) ==
    conn.stage = "accepted" \/ conn.send_task = "running"

\* Receivers of the channel: the accept loop's rx and one per connection.
HubReceivers ==
    (IF accepting THEN 1 ELSE 0)
      + Cardinality({c \in ClientIds : Subscribed(conns[c])})

SendReady_bounded(cs) ==
    \A c \in DOMAIN cs : Subscribed(cs[c]) => cs[c].behind < CHANNEL_CAPACITY

\* Sender::send is a synchronous call that never waits for a receiver.
SendReady(cs) ==
    TRUE

\* Sender::send with a receiver: every receiver is one more message behind.
Sent(cs) ==
    [c \in DOMAIN cs |->
        IF Subscribed(cs[c]) /\ cs[c].behind <= CHANNEL_CAPACITY
        THEN [cs[c] EXCEPT !.behind = @ + 1]
        ELSE cs[c]]

\* The Result of broadcast_update: Ok when tx is None, else that of
\* Sender::send, which is Err when the channel has no receiver.
broadcast_update_result(tx, receivers) ==
    IF IsSome(tx)
    THEN IF receivers > 0 THEN "Ok" ELSE "Err"
    ELSE "Ok"

\* Receiver::recv for a receiver `behind` messages behind: the channel keeps
\* the last CHANNEL_CAPACITY messages.
Recv(behind) ==
    IF behind > CHANNEL_CAPACITY
    THEN [kind |-> "Lagged", behind |-> CHANNEL_CAPACITY]
    ELSE IF behind > 0
         THEN [kind |-> "Ok", behind |-> behind - 1]
         ELSE [kind |-> "Pending", behind |-> behind]

\* send_task can take its next step.
SendTaskReady(conn) ==
    /\ conn.send_task = "running"
    /\ ~conn.stalled
    /\ Recv(conn.behind).kind # "Pending"

\* server.clone() before start(): the clone shares the Sender.
CloneServer ==
    /\ phase = "new"
    /\ coord_tx = None
    /\ coord_tx' = server_tx
    /\ UNCHANGED <<outsideWs, phase, server_tx, wsVars>>

\* A call of broadcast_update or of a send_* method, which builds its
\* message and calls broadcast_update.
Publish(method, handle) ==
    /\ SendReady(conns)
    /\ last_publish' = broadcast_update_result(TxOf(handle), HubReceivers)
    /\ conns' = IF IsSome(TxOf(handle)) /\ HubReceivers > 0
                THEN Sent(conns) ELSE conns
    /\ UNCHANGED <<outsideWs, phase, server_tx, coord_tx, accepting,
                   last_frame>>

\* The accept loop takes a connection whose handshake succeeds:
\* rx.resubscribe() starts at the tail; the handler is spawned.
WsAccept(c) ==
    /\ accepting
    /\ conns[c].stage = "none"
    /\ conns' = [conns EXCEPT ![c] = [NoConnection EXCEPT
                     !.stage = "accepted", !.peer = "up"]]
    /\ UNCHANGED <<outsideWs, phase, server_tx, coord_tx, accepting,
                   last_publish, last_frame>>

\* accept_async(stream).await? on a peer whose handshake fails: the error
\* leaves run_websocket_server, dropping the listener and the loop's rx.
WsHandshakeFails ==
    /\ accepting
    /\ accepting' = FALSE
    /\ UNCHANGED <<outsideWs, phase, server_tx, coord_tx, conns,
                   last_publish, last_frame>>

\* The peer goes away without a close frame.
PeerGone(c) ==
    /\ conns[c].peer = "up"
    /\ conns' = [conns EXCEPT ![c].peer = "down", ![c].stalled = FALSE]
    /\ UNCHANGED <<outsideWs, phase, server_tx, coord_tx, accepting,
                   last_publish, last_frame>>

AfterHello_spawn(conn, sent_ok) ==
    [conn EXCEPT !.stage = "running", !.send_task = "running",
                 !.recv_task = "running",
                 !.hello = conn.hello + (IF sent_ok THEN 1 ELSE 0)]

\* The handler after ws_sender.send(hello): it returns on an error, else it
\* spawns send_task and recv_task.
AfterHello(conn, sent_ok) ==
    IF sent_ok
    THEN [conn EXCEPT !.stage = "running", !.send_task = "running",
                      !.recv_task = "running", !.hello = conn.hello + 1]
    ELSE [conn EXCEPT !.stage = "hello_failed"]

\* handle_websocket_connection up to the spawns.
Hello(c) ==
    /\ conns[c].stage = "accepted"
    /\ conns' = [conns EXCEPT ![c] = AfterHello(conns[c], conns[c].peer = "up")]
    /\ UNCHANGED <<outsideWs, phase, server_tx, coord_tx, accepting,
                   last_publish, last_frame>>

\* The client stops reading: send_task waits in ws_sender.send.
Stall(c) ==
    /\ conns[c].send_task = "running"
    /\ conns[c].peer = "up"
    /\ ~conns[c].stalled
    /\ conns' = [conns EXCEPT ![c].stalled = TRUE]
    /\ UNCHANGED <<outsideWs, phase, server_tx, coord_tx, accepting,
                   last_publish, last_frame>>

Resume(c) ==
    /\ conns[c].stalled
    /\ conns' = [conns EXCEPT ![c].stalled = FALSE]
    /\ UNCHANGED <<outsideWs, phase, server_tx, coord_tx, accepting,
                   last_publish, last_frame>>

\* send_task: rx.recv() gives Ok(msg) and the message is sent to the client.
Forward(c) ==
    /\ SendTaskReady(conns[c])
    /\ Recv(conns[c].behind).kind = "Ok"
    /\ conns[c].peer = "up"
    /\ conns' = [conns EXCEPT ![c].behind = Recv(conns[c].behind).behind]
    /\ UNCHANGED <<outsideWs, phase, server_tx, coord_tx, accepting,
                   last_publish, last_frame>>

\* send_task: rx.recv() gives Ok(msg) and ws_sender.send fails; the error
\* is logged by unwrap_or_else and the loop goes on.
ForwardError(c) ==
    /\ SendTaskReady(conns[c])
    /\ Recv(conns[c].behind).kind = "Ok"
    /\ conns[c].peer = "down"
    /\ conns' = [conns EXCEPT ![c].behind = Recv(conns[c].behind).behind]
    /\ UNCHANGED <<outsideWs, phase, server_tx, coord_tx, accepting,
                   last_publish, last_frame>>

\* send_task: rx.recv() gives Err(Lagged), which ends `while let Ok`; the
\* task ends and drops rx and ws_sender.
RecvLagged(c) ==
    /\ SendTaskReady(conns[c])
    /\ Recv(conns[c].behind).kind = "Lagged"
    /\ conns' = [conns EXCEPT ![c].send_task = "ended", ![c].behind = 0]
    /\ UNCHANGED <<outsideWs, phase, server_tx, coord_tx, accepting,
                   last_publish, last_frame>>

\* What ws_receiver.next() can yield.
FrameKinds ==
    {"register", "hmr_ready", "unknown_type", "no_type", "invalid_json",
     "binary", "frame_error", "close", "end_of_stream"}

FrameEnds_strict(kind) ==
    kind \in {"close", "end_of_stream", "frame_error", "invalid_json"}

\* recv_task leaves its loop on a close frame (break) and when the stream
\* yields None.
FrameEnds(kind) ==
    kind \in {"close", "end_of_stream"}

\* recv_task takes the next item of the stream.  After a close frame the
\* connection no longer sends data frames.
Frame(c, kind) ==
    /\ conns[c].recv_task = "running"
    /\ IF kind = "end_of_stream" THEN conns[c].peer = "down"
                                 ELSE conns[c].peer = "up"
    /\ conns' = [conns EXCEPT
                   ![c].recv_task = IF FrameEnds(kind) THEN "ended" ELSE @,
                   ![c].peer = IF kind = "close" THEN "down" ELSE @,
                   ![c].stalled = IF kind = "close" THEN FALSE ELSE @]
    /\ last_frame' = Some([conn |-> c, kind |-> kind])
    /\ UNCHANGED <<outsideWs, phase, server_tx, coord_tx, accepting,
                   last_publish>>

\* Publishing to clients that read promptly or stall.
NextHub ==
    \/ CloneServer
    \/ Start
    \/ \E m \in PublishMethods, h \in Handles : Publish(m, h)
    \/ \E c \in ClientIds : WsAccept(c)
    \/ \E c \in ClientIds : Hello(c)
    \/ \E c \in ClientIds : Stall(c)
    \/ \E c \in ClientIds : Resume(c)
    \/ \E c \in ClientIds : Forward(c)
    \/ \E c \in ClientIds : RecvLagged(c)

SpecHub == Init /\ [][NextHub]_vars

\* No handler or send_task is due to run.
TasksSettled ==
    \A c \in ClientIds : conns[c].stage # "accepted" /\ ~SendTaskReady(conns[c])

\* Connections that come, send frames, fail and go; the clients read
\* promptly and the runtime runs a handler or send_task that can step before
\* the next publication.
NextWs ==
    \/ CloneServer
    \/ Start
    \/ \E m \in PublishMethods, h \in Handles : TasksSettled /\ Publish(m, h)
    \/ \E c \in ClientIds : WsAccept(c)
    \/ WsHandshakeFails
    \/ \E c \in ClientIds : PeerGone(c)
    \/ \E c \in ClientIds : Hello(c)
    \/ \E c \in ClientIds : Forward(c)
    \/ \E c \in ClientIds : ForwardError(c)
    \/ \E c \in ClientIds, k \in FrameKinds : Frame(c, k)

SpecWs == Init /\ [][NextWs]_vars

-----------------------------------------------------------------------------
(* The HTTP loop of DevServer::start and src/src/hmr_inject.rs.  URLs and
   file paths are token sequences; a request comes with the condition of the
   file it names. *)

\* "/__orbit_hmr_client.js"
ReservedUrl == <<"/", "__orbit_hmr_client.js">>

\* The src attribute inject_hmr_client writes: the reserved path followed by
\* ?v=<as_secs()>.
ScriptUrl(secs) == ReservedUrl \o <<"?v=", ToString(secs)>>

\* SystemTime::now().duration_since(UNIX_EPOCH).as_secs()
AsSecs(t) == t \div 1000

StaticUrls ==
    { ReservedUrl,
      <<"/">>,
      <<"/", "index", ".html">>,
      <<"/", "app", ".js">>,
      <<"/", "assets", "/", "logo", ".png">>,
      <<"/", "assets", "/", "..", "/", "app", ".js">>,
      <<"/", "..", "/", "secret", ".txt">> }

\* What the file system holds at the path of a request: nothing, a
\* directory, a readable UTF-8 file, a readable file that is not UTF-8, a
\* file the server may not read, a file removed after the exists() test.
FileConds ==
    {"missing", "directory", "readable", "not_utf8", "unreadable", "vanishing"}

\* url.trim_start_matches('/')
RECURSIVE TrimStartSlashes(_)
TrimStartSlashes(url) ==
    IF url # <<>> /\ Head(url) = "/" THEN TrimStartSlashes(Tail(url)) ELSE url

\* project_dir.join("index.html") for an empty url, else project_dir.join(url)
FilePath(url) ==
    IF TrimStartSlashes(url) = <<>> THEN <<"index", ".html">>
    ELSE TrimStartSlashes(url)

\* The file the static branch tests and opens: project_dir.join(..), the
\* url appended to the project directory as it is.
JoinedPath(url) == ProjectRoot \o <<"/">> \o FilePath(url)

\* The components of the file the operating system opens for a path: "/"
\* separates components and ".." leaves the directory reached so far (the
\* root directory is its own parent).
RECURSIVE Resolve(_, _)
Resolve(done, rest) ==
    IF rest = <<>> THEN done
    ELSE IF Head(rest) = "/" THEN Resolve(Append(done, <<>>), Tail(rest))
    ELSE IF Head(rest) = ".."
         THEN Resolve(IF Len(done) > 1 THEN SubSeq(done, 1, Len(done) - 2)
                      ELSE <<>>, Tail(rest))
    ELSE Resolve([done EXCEPT ![Len(done)] = Append(@, Head(rest))], Tail(rest))

\* is_html_file: the extension is "html"
is_html_file(path) == Last(path) = ".html"

\* file_path.exists() && file_path.is_file()
ExistsAndIsFile(cond) == cond \notin {"missing", "directory"}

\* std::fs::File::open succeeds
OpenOk(cond) == cond \in {"readable", "not_utf8"}

\* process_html_file: open and read_to_string, then inject_hmr_client
process_html_file(cond, t) ==
    IF cond = "readable"
    THEN Some([status |-> 200, content_type |-> "text/html",
               body |-> "injected", script |-> Some(ScriptUrl(AsSecs(t)))])
    ELSE None

\* Response::from_file(file)
RawFile ==
    [status |-> 200, content_type |-> "none", body |-> "raw", script |-> None]

\* The response to the reserved path.
Bootstrap ==
    [status |-> 200, content_type |-> "application/javascript",
     body |-> "hmr_client.js", script |-> None]

NotFound ==
    [status |-> 404, content_type |-> "none", body |-> "File not found",
     script |-> None]

\* File::open(&file_path).expect("Failed to open file"): None is the panic.
OpenOrPanic(cond) ==
    IF OpenOk(cond) THEN Some(RawFile) ELSE None

\* One pass of the request loop: the response, or None when the loop
\* panics.
Serve(url, cond, t) ==
    IF url = ReservedUrl THEN Some(Bootstrap)
    ELSE IF ExistsAndIsFile(cond)
         THEN IF is_html_file(FilePath(url))
              THEN IF IsSome(process_html_file(cond, t))
                   THEN process_html_file(cond, t)
                   ELSE OpenOrPanic(cond)
              ELSE OpenOrPanic(cond)
         ELSE Some(NotFound)

\* The URLs a browser asks for: fixed ones and the script URL of the page
\* it was served last.
RequestUrls ==
    StaticUrls \cup
      (IF IsSome(http.response) /\ IsSome(Unwrap(http.response).script)
       THEN {Unwrap(Unwrap(http.response).script)} ELSE {})

\* server.incoming_requests() yields a request and the loop serves it; a
\* panic unwinds the server thread.
Request(url, cond) ==
    /\ http.state = "serving"
    /\ http' = [state |-> IF IsSome(Serve(url, cond, now))
                          THEN "serving" ELSE "panicked",
                request |-> Some([url |-> url, file |-> cond]),
                response |-> Serve(url, cond, now)]
    /\ UNCHANGED <<now, phase, hubVars, hmrVars, coordVars, last_call,
                   sideVars, concVars, wsVars>>

NextHttp ==
    \/ Start
    \/ \E url \in RequestUrls, cond \in FileConds : Request(url, cond)
    \/ Tick

SpecHttp == Init /\ [][NextHttp]_vars

-----------------------------------------------------------------------------
(* HTML injection (src/src/hmr_inject.rs)                                   *)
(*                                                                          *)
(* A text is a sequence of characters.  A character is named by a string:   *)
(* an ASCII character by itself, a longer ASCII run the code never cuts by  *)
(* the run, and the characters outside ASCII by a name.  Positions are byte *)
(* offsets into the UTF-8 encoding, as in str::rfind and str::split_at.     *)

\* "__ORBIT_REGISTER_HMR_HANDLER"
Marker == "__ORBIT_REGISTER_HMR_HANDLER"

CloseBody == <<"<", "/", "b", "o", "d", "y", ">">>
CloseBodyUpper == <<"<", "/", "B", "O", "D", "Y", ">">>

ScriptOpen == "<script type=\"text/javascript\" src=\""
ScriptClose == "\"></script>\n"

\* Number of decimal digits of n.
RECURSIVE DecimalLen(_)
DecimalLen(n) == IF n < 10 THEN 1 ELSE 1 + DecimalLen(n \div 10)

\* char::len_utf8, and the byte length of an ASCII run.
len_utf8(ch) ==
    CASE ch = "I_DOT" -> 2            \* U+0130
      [] ch = "COMBINING_DOT" -> 2    \* U+0307
      [] ch = "KELVIN" -> 3           \* U+212A
      [] ch = Marker -> 28
      [] ch = "__orbit_register_hmr_handler" -> 28
      [] ch = ScriptOpen -> 36
      [] ch = ScriptClose -> 12
      [] ch = "__orbit_hmr_client.js" -> 21
      [] ch = "?v=" -> 3
      [] OTHER -> 1

\* The strings ToString gives for the seconds of the clock.
SecsStrings == {ToString(n) : n \in 0..(MaxTime \div 1000)}

RECURSIVE str_len(_)
str_len(text) ==
    IF text = <<>> THEN 0
    ELSE (IF Head(text) \in SecsStrings
          THEN DecimalLen(CHOOSE n \in 0..(MaxTime \div 1000) : ToString(n) = Head(text))
          ELSE len_utf8(Head(text)))
         + str_len(Tail(text))

\* char::to_lowercase
char_to_lowercase(ch) ==
    CASE ch = "I_DOT" -> <<"i", "COMBINING_DOT">>
      [] ch = "KELVIN" -> <<"k">>
      [] ch = "B" -> <<"b">>
      [] ch = "O" -> <<"o">>
      [] ch = "D" -> <<"d">>
      [] ch = "Y" -> <<"y">>
      [] ch = Marker -> <<"__orbit_register_hmr_handler">>
      [] OTHER -> <<ch>>

\* str::to_lowercase
RECURSIVE to_lowercase(_)
to_lowercase(text) ==
    IF text = <<>> THEN <<>>
    ELSE char_to_lowercase(Head(text)) \o to_lowercase(Tail(text))

\* The character indices at which pat occurs in text.
Occurrences(text, pat) ==
    {i \in 1..(Len(text) - Len(pat) + 1) : SubSeq(text, i, i + Len(pat) - 1) = pat}

\* str::contains
contains(text, pat) == Occurrences(text, pat) # {}

Max(S) == CHOOSE x \in S : \A y \in S : y <= x

\* str::rfind: the byte offset of the last occurrence, or None.
rfind(text, pat) ==
    IF Occurrences(text, pat) = {} THEN None
    ELSE Some(str_len(SubSeq(text, 1, Max(Occurrences(text, pat)) - 1)))

\* The byte offset of the start of the i-th character, i in 1..Len + 1.
ByteOffset(text, i) == str_len(SubSeq(text, 1, i - 1))

\* str::is_char_boundary
is_char_boundary(text, pos) ==
    \E i \in 1..(Len(text) + 1) : ByteOffset(text, i) = pos

\* str::split_at: panics when mid is not on a character boundary (or is
\* past the end).
split_at(text, mid) ==
    IF is_char_boundary(text, mid)
    THEN LET i == CHOOSE j \in 1..(Len(text) + 1) : ByteOffset(text, j) = mid
         IN  [panic |-> FALSE, before |-> SubSeq(text, 1, i - 1),
              after |-> SubSeq(text, i, Len(text))]
    ELSE [panic |-> TRUE, before |-> <<>>, after |-> <<>>]

\* The script element inject_hmr_client formats.
ScriptTag(secs) == <<ScriptOpen>> \o ScriptUrl(secs) \o <<ScriptClose>>

\* inject_hmr_client(html_content, _port), called at clock t.
inject_hmr_client(html_content, t) ==
    IF contains(html_content, <<Marker>>)
    THEN InjectOk(html_content)
    ELSE LET pos == rfind(to_lowercase(html_content), CloseBody)
         IN  IF IsSome(pos)
             THEN LET parts == split_at(html_content, Unwrap(pos))
                  IN  IF parts.panic THEN InjectPanic
                      ELSE InjectOk(parts.before \o ScriptTag(AsSecs(t)) \o parts.after)
             ELSE InjectOk(html_content \o ScriptTag(AsSecs(t)))

\* The pieces the documents handed to inject_hmr_client are made of.
HtmlPieces ==
    { <<"x">>, <<"I_DOT">>, <<"KELVIN">>, CloseBody, CloseBodyUpper, <<Marker>> }

RECURSIVE Concat(_)
Concat(ss) == IF ss = <<>> THEN <<>> ELSE Head(ss) \o Concat(Tail(ss))

HtmlInputs ==
    {Concat(ps) : ps \in UNION {[1..n -> HtmlPieces] : n \in 0..MaxPieces}}

\* inject_hmr_client is called on the document, or on what the last call
\* returned.
Inject ==
    /\ html.calls < MaxInjects
    /\ ~html.out.panic
    /\ html' = [html EXCEPT !.calls = @ + 1,
                            !.input = html.out.text,
                            !.at = now,
                            !.out = inject_hmr_client(html.out.text, now)]
    /\ UNCHANGED <<now, phase, hubVars, hmrVars, coordVars, last_call, pm_input,
                   maintVars, ports, concVars, netVars>>

InitInject ==
    /\ InitRest
    /\ pm_input = <<>>
    /\ html \in {NoInject(doc) : doc \in HtmlInputs}
    /\ ports = NoPorts(DEFAULT_DEV_PORT)

NextInject ==
    \/ Inject
    \/ Tick

SpecInject == InitInject /\ [][NextInject]_vars

-----------------------------------------------------------------------------
(* Maintenance (src/src/maintenance.rs, src/src/dev_maintenance.rs): a
   MaintenanceManager or DevMaintenance holds the HmrContext its constructor
   creates; the coordinator works on the HmrContext of the DevServer. *)

MaintPaths == {PathA, PathB}

\* max_age of the cleanup calls.
CleanupAges == {0, 500}

\* hmr_context().record_file_change(path) on the maintenance object.
MaintRecord(p) ==
    /\ maint_modules' = record_file_change(maint_modules, p, now)
    /\ last_call' = [NoCall EXCEPT !.op = "maint_record_file_change",
                                   !.arg = Some(p),
                                   !.ret = record_file_change_ret(p)]
    /\ UNCHANGED <<now, phase, hubVars, netVars, hmrVars, coordVars, pm_input,
                   html, cleanups, ports, concVars>>

\* MaintenanceManager::clear_all_updates, DevMaintenance::reset_hmr_state
MaintClear ==
    /\ maint_modules' = clear(maint_modules)
    /\ last_call' = [NoCall EXCEPT !.op = "clear_all_updates"]
    /\ UNCHANGED <<now, phase, hubVars, netVars, hmrVars, coordVars, pm_input,
                   html, cleanups, ports, concVars>>

\* MaintenanceManager::show_status, DevMaintenance::get_status: the pending
\* modules it reports.
MaintStatus ==
    /\ last_call' = [NoCall EXCEPT !.op = "get_status",
                                   !.ret = Some(get_pending_updates(maint_modules))]
    /\ UNCHANGED <<now, phase, hubVars, netVars, hmrVars, coordVars, sideVars,
                   concVars>>

\* cleanup_stale_updates(max_age), first part: get_stale_updates and its
\* count; with nothing stale the call returns the count, 0.
CleanupCount(t, max_age) ==
    /\ cleanups[t].step = "idle"
    /\ LET count == Cardinality(get_stale_updates(maint_modules, now, max_age))
       IN  IF count > 0
           THEN /\ cleanups' = [cleanups EXCEPT ![t] =
                       [step |-> "counted", max_age |-> max_age, count |-> count]]
                /\ UNCHANGED last_call
           ELSE /\ last_call' = [NoCall EXCEPT !.op = "cleanup_stale_updates",
                                               !.arg = Some(max_age),
                                               !.ret = Some(0)]
                /\ UNCHANGED cleanups
    /\ UNCHANGED <<now, phase, hubVars, netVars, hmrVars, coordVars, pm_input,
                   html, maint_modules, ports, concVars>>

\* cleanup_stale_updates, second part: clear_stale_updates(max_age), then
\* the count is returned.
CleanupClear(t) ==
    /\ cleanups[t].step = "counted"
    /\ maint_modules' = clear_stale_updates(maint_modules, now, cleanups[t].max_age)
    /\ last_call' = [NoCall EXCEPT !.op = "cleanup_stale_updates",
                                   !.arg = Some(cleanups[t].max_age),
                                   !.ret = Some(cleanups[t].count)]
    /\ cleanups' = [cleanups EXCEPT ![t] = NoCleanup]
    /\ UNCHANGED <<now, phase, hubVars, netVars, hmrVars, coordVars, pm_input,
                   html, ports, concVars>>

\* The coordinator records changes in the DevServer's HmrContext while
\* maintenance callers work on theirs.
NextMaint ==
    \/ \E p \in MaintPaths : ApiRecordFileChange(p)
    \/ \E p \in MaintPaths : MaintRecord(p)
    \/ MaintClear
    \/ MaintStatus
    \/ Tick

SpecMaint == Init /\ [][NextMaint]_vars

\* Callers of one maintenance object: cleanup_stale_updates next to changes
\* recorded in, and clears of, its HmrContext.
NextCleanup ==
    \/ \E p \in MaintPaths : MaintRecord(p)
    \/ MaintClear
    \/ \E t \in ThreadIds, max_age \in CleanupAges : CleanupCount(t, max_age)
    \/ \E t \in ThreadIds : CleanupClear(t)
    \/ Tick

SpecCleanup == Init /\ [][NextCleanup]_vars

-----------------------------------------------------------------------------
(* Ports: OrbitonConfig::validate (src/src/config.rs) and the WebSocket
   port of run_websocket_server (src/src/dev_server.rs) *)

\* The values of a u16.
PortInputs == 0..(2^PORT_BITS - 1)

\* The port check of OrbitonConfig::validate.
validate(port) == port # 0

\* port + 1 on u16: with overflow checks (the dev profile) an overflow
\* panics, without them (the release profile) the sum wraps.
ws_port(port, overflow_checks) ==
    IF port + 1 >= 2^PORT_BITS /\ overflow_checks
    THEN [panic |-> TRUE, port |-> 0]
    ELSE [panic |-> FALSE, port |-> (port + 1) % 2^PORT_BITS]

\* dev::execute: config.validate()?
Validate ==
    /\ ports.valid = None
    /\ ports' = [ports EXCEPT !.valid = Some(validate(ports.port))]
    /\ UNCHANGED <<now, phase, hubVars, hmrVars, coordVars, last_call, pm_input,
                   html, maintVars, concVars, netVars>>

\* DevServer::start spawns run_websocket_server(port, ws_rx).
RunWebsocketServer(overflow_checks) ==
    /\ ports.valid = Some(TRUE)
    /\ ports.ws = None
    /\ ports' = [ports EXCEPT !.ws = Some(ws_port(ports.port, overflow_checks))]
    /\ UNCHANGED <<now, phase, hubVars, hmrVars, coordVars, last_call, pm_input,
                   html, maintVars, concVars, netVars>>

InitPort ==
    /\ InitRest
    /\ pm_input = <<>>
    /\ html = NoInject(<<>>)
    /\ ports \in {NoPorts(port) : port \in PortInputs}

NextPort ==
    \/ Validate
    \/ \E overflow_checks \in BOOLEAN : RunWebsocketServer(overflow_checks)

SpecPort == InitPort /\ [][NextPort]_vars

-----------------------------------------------------------------------------
(* record_file_change on given paths *)

\* A caller hands the next path to record_file_change.
PmRecord ==
    /\ pm_input # <<>>
    /\ modules' = record_file_change(modules, Head(pm_input), now)
    /\ last_call' = [op |-> "record_file_change", arg |-> Some(Head(pm_input)),
                     ret |-> record_file_change_ret(Head(pm_input)),
                     before |-> modules]
    /\ pm_input' = Tail(pm_input)
    /\ UNCHANGED <<now, phase, hubVars, netVars, last_rebuild, coordVars, concVars,
                   html, maintVars, ports>>

InitPath ==
    /\ InitRest
    /\ pm_input \in UNION {[1..n -> PathInputs] : n \in 1..MaxPaths}
    /\ html = NoInject(<<>>)
    /\ ports = NoPorts(DEFAULT_DEV_PORT)

NextPath == PmRecord

SpecPath == InitPath /\ [][NextPath]_vars

NextHmr ==
    \/ \E p \in ApiPaths : ApiRecordFileChange(p)
    \/ ApiMarkModulesUpdated
    \/ ApiRecordRebuild
    \/ ApiClear
    \/ \E max_age \in MaxAgeInputs : ApiClearStaleUpdates(max_age)
    \/ Tick

SpecHmr == Init /\ [][NextHmr]_vars

-----------------------------------------------------------------------------
(* Properties *)

\* The messages a step adds to the coordinator's publications.
NewlyPublished == SubSeq(published', Len(published) + 1, Len(published'))

SomeClientOpen == \E c \in ClientIds : clients[c].state = "open"

\* The debounce window is open: no successful rebuild completed, and the
\* watch session did not start, less than DEBOUNCE_TIME ago.
WindowOpen ==
    /\ IsSome(last_rebuild) => now - Unwrap(last_rebuild) >= DEBOUNCE_TIME
    /\ IsSome(watch_started) /\ now - Unwrap(watch_started) >= DEBOUNCE_TIME

\* C1: in the dev flow every message the coordinator publishes enters the
\* broadcast channel, in order, for the clients subscribed at that moment.
C1_PublishedReachesChannel ==
    [][(NewlyPublished # <<>> /\ SomeClientOpen)
          => chan' = chan \o NewlyPublished]_vars

\* C2: a successful rebuild with modules pending publishes one hmr message
\* listing exactly the modules pending just before the reset; no hmr message
\* follows a failed rebuild or carries an empty list.
C2_HmrAfterSuccessfulRebuild ==
    [][/\ (outstanding' < outstanding /\ Last(rebuilds').result = "ok"
            /\ get_pending_updates(modules) # {})
          => Cardinality({i \in 1..Len(NewlyPublished) :
                NewlyPublished[i] = HmrMsg(get_pending_updates(modules))}) = 1
       /\ \A i \in 1..Len(NewlyPublished) :
            NewlyPublished[i].type = "hmr"
              => /\ NewlyPublished[i].modules # {}
                 /\ outstanding' < outstanding
                 /\ Last(rebuilds').result = "ok"]_vars

\* C3: every watch event the coordinator takes is published as one
\* fileChange message with the event's paths and kind.
C3_FileChangeForEveryEvent ==
    [][taken' = taken + 1
          => Cardinality({i \in 1..Len(NewlyPublished) :
                NewlyPublished[i] = FileChangeMsg(Head(queue))}) = 1]_vars

\* C4: after a notification is processed, every module its paths map to is
\* pending in HmrState, whenever the notification arrives.
C4_EveryNotificationRecorded ==
    [][taken' = taken + 1
          => ModulesOfPaths(Head(queue).paths)
                \subseteq get_pending_updates(modules')]_vars

\* C5: no starvation: when the coordinator processes a notification while
\* the debounce window is open, every module change it has been notified of
\* has gone into a build by the end of the step: a rebuild starts if any
\* had not.
C5_NoStarvation ==
    [][(taken' = taken + 1 /\ WindowOpen) => owed' = {}]_vars

\* C6: at most one rebuild is outstanding, and a rebuild starts only when no
\* successful rebuild completed less than DEBOUNCE_TIME ago.
C6_OneRebuildDebounced ==
    [][/\ outstanding' <= 1
       /\ outstanding' > outstanding
            => (IsSome(last_rebuild)
                  => now - Unwrap(last_rebuild) >= DEBOUNCE_TIME)]_vars

\* A rebuild is running after an earlier successful one, and a notification
\* has arrived meanwhile.
C6_Witness ==
    /\ pc = "building"
    /\ outstanding = 1
    /\ IsSome(last_rebuild)
    /\ queue # <<>>

C8_FailureKeepsPending ==
    [][(outstanding' < outstanding /\ Last(rebuilds').result = "failed")
          => /\ last_rebuild' = last_rebuild
             /\ get_pending_updates(modules') = Last(rebuilds').pending
             /\ needs_update(modules')
             /\ pc' = "idle"]_vars

C8_Witness ==
    /\ rebuilds # <<>>
    /\ Last(rebuilds).result = "failed"
    /\ pc = "idle"
    /\ get_pending_updates(modules) # {}

DebounceInputs == {0, 250, 500, 1000}

\* C9: should_rebuild(d) is false when a rebuild was recorded less than d
\* ago, and otherwise equals has_pending().
C9_ShouldRebuildContract ==
    \A d \in DebounceInputs :
        should_rebuild(modules, last_rebuild, now, d)
          = IF IsSome(last_rebuild) /\ now - Unwrap(last_rebuild) < d
            THEN FALSE
            ELSE get_pending_updates(modules) # {}

\* A change is pending inside the debounce window of a recorded rebuild.
C9_Witness ==
    /\ IsSome(last_rebuild)
    /\ now - Unwrap(last_rebuild) < DEBOUNCE_TIME
    /\ get_pending_updates(modules) # {}
    /\ ~should_rebuild(modules, last_rebuild, now, DEBOUNCE_TIME)

\* C10: with no prior rebuild a pending module makes should_rebuild(d) true;
\* after record_rebuild at t a pending change makes it false before t + d
\* and true from t + d on.
C10_DebounceScenario ==
    \A d \in DebounceInputs :
        get_pending_updates(modules) # {}
          => IF IsSome(last_rebuild)
             THEN should_rebuild(modules, last_rebuild, now, d)
                    <=> now >= Unwrap(last_rebuild) + d
             ELSE should_rebuild(modules, last_rebuild, now, d)

\* A change recorded after a rebuild is still pending once the window has
\* reopened, next to an entry the rebuild applied.
C10_Witness ==
    /\ IsSome(last_rebuild)
    /\ now >= Unwrap(last_rebuild) + DEBOUNCE_TIME
    /\ \E k \in DOMAIN modules :
          ~modules[k].is_updated /\ modules[k].timestamp > Unwrap(last_rebuild)
    /\ \E k \in DOMAIN modules : modules[k].is_updated
    /\ should_rebuild(modules, last_rebuild, now, DEBOUNCE_TIME)

\* C11: record_rebuild sets last_rebuild to the current time and marks every
\* tracked entry applied, so right afterwards needs_update is false,
\* get_pending_updates is empty and should_rebuild(d) is false for d > 0.
C11_RecordRebuildEffects ==
    [][ApiRecordRebuild
         => /\ last_rebuild' = Some(now)
            /\ DOMAIN modules' = DOMAIN modules
            /\ \A k \in DOMAIN modules' :
                  /\ modules'[k].is_updated
                  /\ modules'[k].timestamp = modules[k].timestamp
            /\ ~needs_update(modules')
            /\ get_pending_updates(modules') = {}
            /\ \A d \in DebounceInputs \ {0} :
                  ~should_rebuild(modules', last_rebuild', now', d)]_vars

\* record_rebuild has just run over a pending entry.
C11_Witness ==
    /\ last_call.op = "record_rebuild"
    /\ \E k \in DOMAIN last_call.before : ~last_call.before[k].is_updated
    /\ last_rebuild = Some(now)
    /\ \A k \in DOMAIN modules : modules[k].is_updated

\* C12: record_file_change of a mapped module makes needs_update true with
\* the module id among get_pending_updates; mark_modules_updated makes
\* needs_update false; needs_update holds exactly when get_pending_updates is
\* non-empty.
C12_PendingContract ==
    [][/\ \A p \in ApiPaths :
             (ApiRecordFileChange(p) /\ IsSome(ModuleOf(p)))
               => /\ needs_update(modules')
                  /\ Unwrap(ModuleOf(p)) \in get_pending_updates(modules')
       /\ ApiMarkModulesUpdated => ~needs_update(modules')
       /\ needs_update(modules') <=> get_pending_updates(modules') # {}]_vars

\* mark_modules_updated has just run over two pending entries.
C12_Witness ==
    /\ last_call.op = "mark_modules_updated"
    /\ Cardinality({k \in DOMAIN last_call.before :
                       ~last_call.before[k].is_updated}) = 2
    /\ ~needs_update(modules)

\* C13: the map holds one entry per module id, and recording a change for a
\* tracked module keeps the number of entries and resets that entry to
\* is_updated = false with timestamp = now.
C13_OneEntryPerModule ==
    [][/\ \A k \in DOMAIN modules' : modules'[k].module = k
       /\ \A p \in ApiPaths :
             (/\ ApiRecordFileChange(p)
              /\ IsSome(ModuleOf(p))
              /\ Unwrap(ModuleOf(p)) \in DOMAIN modules)
               => /\ Cardinality(DOMAIN modules') = Cardinality(DOMAIN modules)
                  /\ modules'[Unwrap(ModuleOf(p))]
                       = HmrUpdate(Unwrap(ModuleOf(p)), now)
                  /\ \A k \in DOMAIN modules \ {Unwrap(ModuleOf(p))} :
                        modules'[k] = modules[k]]_vars

\* A change was recorded for a module that was tracked, applied and older.
C13_Witness ==
    /\ last_call.op = "record_file_change"
    /\ IsSome(last_call.ret)
    /\ Unwrap(last_call.ret) \in DOMAIN last_call.before
    /\ last_call.before[Unwrap(last_call.ret)].is_updated
    /\ last_call.before[Unwrap(last_call.ret)].timestamp < now
    /\ modules[Unwrap(last_call.ret)] = HmrUpdate(Unwrap(last_call.ret), now)

\* C16: clear_stale_updates(max_age) removes exactly the entries with
\* now - timestamp > max_age, applied or not, leaves the others and
\* last_rebuild as they were, and a second call at the same instant changes
\* nothing.
C16_EvictStaleExact ==
    [][\A max_age \in MaxAgeInputs :
          ApiClearStaleUpdates(max_age)
            => /\ DOMAIN modules'
                    = {k \in DOMAIN modules : now - modules[k].timestamp <= max_age}
               /\ \A k \in DOMAIN modules' : modules'[k] = modules[k]
               /\ last_rebuild' = last_rebuild
               /\ clear_stale_updates(modules', now', max_age) = modules'
               /\ get_stale_updates(modules', now', max_age) = {}]_vars

\* clear_stale_updates removed an applied entry and kept a younger one.
C16_Witness ==
    /\ last_call.op = "clear_stale_updates"
    /\ \E k \in DOMAIN last_call.before \ DOMAIN modules :
          last_call.before[k].is_updated
    /\ \E k \in DOMAIN modules :
          now - modules[k].timestamp = Unwrap(last_call.arg)

\* The debounce test of should_rebuild on the Option it reads.
GateClosed(last, t, d) ==
    IsSome(last) /\ DebounceGate(Unwrap(last), t, d)

\* C17: clear removes every entry and leaves last_rebuild alone, so the
\* debounce gate of should_rebuild is the same before and after.
C17_ClearFrame ==
    [][ApiClear
         => /\ modules' = <<>>
            /\ ~needs_update(modules')
            /\ last_rebuild' = last_rebuild
            /\ \A d \in DebounceInputs :
                  GateClosed(last_rebuild', now', d)
                    = GateClosed(last_rebuild, now, d)]_vars

\* clear has just run over pending and applied entries inside the debounce
\* window of a recorded rebuild.
C17_Witness ==
    /\ last_call.op = "clear"
    /\ \E k \in DOMAIN last_call.before : ~last_call.before[k].is_updated
    /\ \E k \in DOMAIN last_call.before : last_call.before[k].is_updated
    /\ modules = <<>>
    /\ IsSome(last_rebuild)
    /\ GateClosed(last_rebuild, now, DEBOUNCE_TIME)

SrcRoot == ProjectRoot \o <<"/", "src">>

\* Under <root>/src/ with extension rs or orbit.
IsSourceFile(path) ==
    /\ IsSome(StripPrefix(path, SrcRoot))
    /\ IsSome(Extension(path))
    /\ Unwrap(Extension(path)) \in {"rs", "orbit"}

\* The path relative to <root>/src/ without its final extension.
RelativeModuleId(path) ==
    LET rel == NormalizeSeparators(Unwrap(StripPrefix(path, SrcRoot)))
    IN  SubSeq(rel, 1, Len(rel) - 1)

\* C18: for a path under <root>/src/ with extension rs or orbit,
\* record_file_change returns the path relative to <root>/src/ with only the
\* leading src/ and only the final extension removed, also when names inside
\* the path contain "src/", ".rs" or ".orbit".
C18_ModuleIdIsRelativePath ==
    (/\ last_call.op = "record_file_change"
     /\ IsSourceFile(Unwrap(last_call.arg)))
      => last_call.ret = Some(RelativeModuleId(Unwrap(last_call.arg)))

\* C19: for a path outside the project root, outside src/, without an
\* extension or with an extension other than rs/orbit, record_file_change
\* returns None and leaves the entries and last_rebuild as they were.
C19_UnmappedPathIgnored ==
    [][(PmRecord /\ ~IsSourceFile(Head(pm_input)))
         => /\ last_call'.ret = None
            /\ modules' = modules
            /\ last_rebuild' = last_rebuild]_vars

\* What the channel still holds for subscriber c.
Undelivered(ch, client) == SubSeq(ch, client.next, Len(ch))

\* C20: every subscriber receives every message published after it
\* subscribed, once and in publication order: a publication extends what the
\* channel holds for each open subscriber by exactly the messages published,
\* the same for any two subscribers.
C20_SubscribersGetPublications ==
    [][\A c \in ClientIds :
          (clients[c].state = "open" /\ clients'[c] = clients[c])
            => Undelivered(chan', clients'[c])
                 = Undelivered(chan, clients[c]) \o NewlyPublished]_vars

\* The effect and result of a call run alone on (mods, last).
Sequential(c, mods, last, t) ==
    CASE c.op = "record_file_change" ->
           [modules |-> record_file_change(mods, c.arg, t), last_rebuild |-> last,
            ret |-> ModuleOf(c.arg)]
      [] c.op = "mark_modules_updated" ->
           [modules |-> mark_modules_updated(mods), last_rebuild |-> last,
            ret |-> "ok"]
      [] c.op = "needs_update" ->
           [modules |-> mods, last_rebuild |-> last, ret |-> needs_update(mods)]
      [] c.op = "get_pending_updates" ->
           [modules |-> mods, last_rebuild |-> last,
            ret |-> get_pending_updates(mods)]
      [] c.op = "clear" ->
           [modules |-> clear(mods), last_rebuild |-> last, ret |-> "ok"]
      [] c.op = "record_rebuild" ->
           [modules |-> record_rebuild(mods, last, t).modules,
            last_rebuild |-> record_rebuild(mods, last, t).last_rebuild,
            ret |-> "ok"]
      [] c.op = "should_rebuild" ->
           [modules |-> mods, last_rebuild |-> last,
            ret |-> should_rebuild(mods, last, t, c.arg)]

\* Running the calls in the order `order` from position i on (mods, last)
\* gives every call the result it returned and ends in the present state.
RECURSIVE Explains(_, _, _, _)
Explains(order, i, mods, last) ==
    IF i > Len(order)
    THEN mods = modules /\ last = last_rebuild
    ELSE LET r == Sequential(calls[order[i]], mods, last, now)
         IN  /\ calls[order[i]].ret = Some(r.ret)
             /\ Explains(order, i + 1, r.modules, r.last_rebuild)

\* The orders of all calls that keep a call that returned before another was
\* invoked ahead of it.
RealTimeOrders ==
    {o \in [1..Len(calls) -> 1..Len(calls)] :
        /\ \A a, b \in 1..Len(calls) : a # b => o[a] # o[b]
        /\ \A a, b \in 1..Len(calls) : a < b => o[b] \notin calls[o[a]].after}

Quiescent == \A t \in ThreadIds : threads[t] = Idle

\* C14: every HmrContext operation is atomic with respect to the others:
\* once all calls have returned, some sequential order of the calls that is
\* consistent with their real-time order explains every result and the state.
C14_Linearizable ==
    Quiescent => \E o \in RealTimeOrders : Explains(o, 1, <<>>, None)

\* C15: concurrent HmrContext calls never deadlock: while calls are in
\* progress, some caller in progress can take its next step.
C15_NoDeadlock ==
    (\E t \in ThreadIds : threads[t].call # 0)
      => \E t \in ThreadIds :
            /\ threads[t].call # 0
            /\ \/ threads[t].locked
               \/ locks[LockPlan(calls[threads[t].call].op)[threads[t].step].needs] = 0

\* One caller holds last_rebuild inside record_rebuild and waits for modules
\* while another caller is inside a critical section on modules.
C15_Witness ==
    \E t, u \in ThreadIds :
        /\ t # u
        /\ threads[t].call # 0
        /\ calls[threads[t].call].op = "record_rebuild"
        /\ threads[t].step = 2
        /\ ~threads[t].locked
        /\ locks["last_rebuild"] = t
        /\ locks["modules"] = u

\* No connection holds a receiver.
NoSubscriber == \A c \in ClientIds : ~Subscribed(conns[c])

\* C21: publishing when the hub has no subscriber returns Ok and changes
\* nothing, for broadcast_update and the three send_* methods.
C21_PublishWithoutSubscribersOk ==
    [][\A m \in PublishMethods, h \in Handles :
          (Publish(m, h) /\ NoSubscriber)
            => last_publish' = "Ok" /\ conns' = conns]_vars

C23_LaggedStaysSubscribed ==
    [][\A c \in ClientIds :
          RecvLagged(c)
            => /\ Subscribed(conns'[c])
               /\ conns'[c].send_task = "running"
               /\ conns'[c].behind = CHANNEL_CAPACITY]_vars

\* C24: on every accepted connection one hello is sent, before any hub
\* message is forwarded; if sending hello fails the connection ends without
\* starting either loop.
C24_HelloFirstAndOnce ==
    [][\A c \in ClientIds :
          /\ (Forward(c) \/ ForwardError(c)) => conns[c].hello = 1
          /\ conns'[c].stage = "running" => conns'[c].hello = 1
          /\ conns'[c].hello <= 1
          /\ conns'[c].stage = "hello_failed"
               => /\ conns'[c].hello = 0
                  /\ conns'[c].send_task = "none"
                  /\ conns'[c].recv_task = "none"
                  /\ ~Subscribed(conns'[c])]_vars

\* One connection ended on a failed hello; another got its hello and has a
\* hub message to forward.
C24_Witness ==
    \E c, d \in ClientIds :
        /\ conns[c].stage = "hello_failed"
        /\ conns[d].stage = "running"
        /\ conns[d].hello = 1
        /\ conns[d].behind = 1

\* C25: when one loop of a connection has ended the other one is terminated
\* too: a connection whose inbound loop ended takes no more hub messages,
\* and one whose outbound loop ended reads no more client frames.
C25_LoopsEndTogether ==
    [][\A c \in ClientIds :
          /\ (Forward(c) \/ ForwardError(c)) => conns[c].recv_task = "running"
          /\ (\E k \in FrameKinds : Frame(c, k)) => conns[c].send_task = "running"]_vars

\* C26: the first failure to send a hub message to a client ends that
\* connection's outbound loop and drops its subscription.
C26_SendErrorEndsConnection ==
    [][\A c \in ClientIds :
          ForwardError(c)
            => /\ conns'[c].send_task = "ended"
               /\ ~Subscribed(conns'[c])]_vars

\* C27: a frame that is not valid JSON, has no type, has an unknown type or
\* is a frame-level error leaves the inbound loop running, and no inbound
\* frame changes HmrContext or publishes anything.
C27_BadFramesIgnored ==
    [][\A c \in ClientIds, k \in FrameKinds :
          Frame(c, k)
            => /\ k \in {"invalid_json", "no_type", "unknown_type", "frame_error"}
                    => /\ conns'[c].recv_task = "running"
                       /\ conns'[c] = conns[c]
               /\ UNCHANGED <<modules, last_rebuild, published, chan,
                              last_publish>>
               /\ \A d \in ClientIds : conns'[d].behind = conns[d].behind]_vars

\* The inbound loop of a running connection has just taken a frame-level
\* error and goes on.
C27_Witness ==
    /\ IsSome(last_frame)
    /\ Unwrap(last_frame).kind = "frame_error"
    /\ conns[Unwrap(last_frame).conn].recv_task = "running"
    /\ conns[Unwrap(last_frame).conn].send_task = "running"

\* C28: a failed connection attempt does not stop the endpoint: once
\* started, the accept loop accepts a connection on every free slot.
C28_AcceptLoopSurvives ==
    phase # "new"
      => \A c \in ClientIds : conns[c].stage = "none" => ENABLED WsAccept(c)

\* C29: a request for a missing or unreadable asset, a file that goes away
\* between the existence test and the open, or an HTML file whose injection
\* read failed, gets a 404 or the raw file and never faults the serving
\* thread.
C29_AssetErrorsNeverFault ==
    /\ http.state # "panicked"
    /\ (/\ IsSome(http.request)
        /\ Unwrap(http.request).url # ReservedUrl
        /\ Unwrap(http.request).file \in
             {"missing", "unreadable", "vanishing", "not_utf8"})
         => /\ IsSome(http.response)
            /\ Unwrap(http.response) \in {NotFound, RawFile}

\* The reserved path, alone or followed by the cache-busting query.
IsBootstrapUrl(url) ==
    url = ReservedUrl \/ \E secs \in 0..AsSecs(MaxTime) : url = ScriptUrl(secs)

\* C30: a request for the reserved bootstrap path, also with the
\* cache-busting query that HTML injection writes, is answered with the
\* bootstrap script and a JavaScript content type.
C30_BootstrapAlwaysServed ==
    (IsSome(http.request) /\ IsBootstrapUrl(Unwrap(http.request).url))
      => http.response = Some(Bootstrap)

-----------------------------------------------------------------------------
(* HTML injection: claims *)

\* The character indices where </body> occurs in text in any letter case.
CaseInsensitiveOccurrences(text) ==
    {i \in 1..(Len(text) - Len(CloseBody) + 1) :
        to_lowercase(SubSeq(text, i, i + Len(CloseBody) - 1)) = CloseBody}

\* The text with the script tag immediately before the last </body> of any
\* letter case, or at the end when there is none.
TagBeforeLastCloseBody(text, t) ==
    IF CaseInsensitiveOccurrences(text) = {}
    THEN text \o ScriptTag(AsSecs(t))
    ELSE LET i == Max(CaseInsensitiveOccurrences(text))
         IN  SubSeq(text, 1, i - 1) \o ScriptTag(AsSecs(t))
               \o SubSeq(text, i, Len(text))

\* C31: for a text without the marker, inject_hmr_client returns the text
\* with one script tag immediately before the last case-insensitive </body>
\* (at the end when there is none) and every other character kept in order,
\* also when a character's lowercase form has another encoded length.
C31_TagBeforeLastCloseBody ==
    (html.calls >= 1 /\ ~contains(html.input, <<Marker>>))
      => html.out = InjectOk(TagBeforeLastCloseBody(html.input, html.at))

\* C32: inject_hmr_client applied to its own output returns that output
\* unchanged.
C32_InjectIdempotent ==
    html.calls >= 2 => html.out = InjectOk(html.input)

-----------------------------------------------------------------------------
(* Maintenance: claims *)

\* C33: maintenance operations act on the HmrState the coordinator mutates:
\* a maintenance clear leaves the coordinator with nothing pending, and a
\* maintenance status query reports what is pending for the coordinator.
C33_MaintenanceSharesState ==
    [][/\ MaintClear => ~needs_update(modules')
       /\ MaintStatus => Unwrap(last_call'.ret) = get_pending_updates(modules)]_vars

\* C37: cleanup_stale_updates returns exactly the number of entries it
\* removed, whatever other callers do to the same HmrState meanwhile.
C37_CleanupCountsRemoved ==
    [][\A t \in ThreadIds :
          CleanupClear(t)
            => Unwrap(last_call'.ret)
                 = Cardinality((DOMAIN maint_modules) \ (DOMAIN maint_modules'))]_vars

-----------------------------------------------------------------------------
(* The coordinator's publications: claims *)

IsOutcome(msg) == msg = RebuildMsg("completed") \/ msg = RebuildMsg("failed")

\* C34: per rebuild the coordinator publishes fileChange, rebuild started,
\* then one of rebuild completed / rebuild failed; failed is directly
\* followed by reload, completed never is; and the build is invoked once per
\* notification that triggers it.
C34_PublicationOrder ==
    /\ \A i \in 1..Len(published) :
         LET msg == published[i]
             prev == IF i > 1 THEN Some(published[i - 1]) ELSE None
             next == IF i < Len(published) THEN Some(published[i + 1]) ELSE None
         IN  /\ msg = RebuildMsg("started")
                  => /\ IsSome(prev) /\ Unwrap(prev).type = "fileChange"
                     /\ IF IsSome(next) THEN IsOutcome(Unwrap(next))
                                        ELSE pc = "building"
             /\ IsOutcome(msg) => prev = Some(RebuildMsg("started"))
             /\ msg = RebuildMsg("failed") => next = Some(ReloadMsg)
             /\ msg = RebuildMsg("completed") => next # Some(ReloadMsg)
             /\ msg = ReloadMsg => prev = Some(RebuildMsg("failed"))
    /\ Len(rebuilds)
         = Cardinality({i \in 1..Len(published) : published[i] = RebuildMsg("started")})
    /\ \A i, j \in 1..Len(rebuilds) : i < j => rebuilds[i].trigger < rebuilds[j].trigger

\* A failed and a completed rebuild have both been published.
C34_Witness ==
    /\ pc = "idle"
    /\ \E i, j \in 1..Len(published) :
         /\ published[i] = RebuildMsg("failed")
         /\ published[j] = RebuildMsg("completed")

\* The entries the step marks applied were recorded no later than the start
\* of the rebuild that completes.
MarksOnlyEarlierChanges ==
    \A k \in DOMAIN modules :
        (k \in DOMAIN modules' /\ ~modules[k].is_updated /\ modules'[k].is_updated)
          => modules[k].timestamp <= Last(rebuilds).started_at

\* C36: a change notified while a rebuild runs is not marked applied by that
\* rebuild: record_rebuild marks only entries recorded before the build was
\* invoked, and once the notification is processed its modules are pending.
C36_ChangeDuringBuildStaysPending ==
    [][/\ (outstanding' < outstanding /\ Last(rebuilds').result = "ok")
            => MarksOnlyEarlierChanges
       /\ (taken' = taken + 1 /\ Head(queue).in_build)
            => ModulesOfPaths(Head(queue).paths)
                 \subseteq get_pending_updates(modules')]_vars

-----------------------------------------------------------------------------
(* Ports: claims *)

\* C35: for every HTTP port that validation accepts, the WebSocket endpoint
\* listens on port + 1, a valid 16-bit port, and computing it does not
\* overflow.
C35_WsPortIsNext ==
    IsSome(ports.ws)
      => /\ ~Unwrap(ports.ws).panic
         /\ Unwrap(ports.ws).port = ports.port + 1
         /\ Unwrap(ports.ws).port \in 1..(2^PORT_BITS - 1)

-----------------------------------------------------------------------------
(* HmrContext: what each operation leaves alone *)

\* The step keeps every entry, with its module id and timestamp.
EntriesKept ==
    /\ DOMAIN modules' = DOMAIN modules
    /\ \A k \in DOMAIN modules :
          /\ modules'[k].module = modules[k].module
          /\ modules'[k].timestamp = modules[k].timestamp

\* The entries of `before` are all there, with module id and timestamp.
EntriesKeptSince(before) ==
    /\ DOMAIN modules = DOMAIN before
    /\ \A k \in DOMAIN before :
          /\ modules[k].module = before[k].module
          /\ modules[k].timestamp = before[k].timestamp

\* C38: mark_modules_updated and record_rebuild add and remove no entry and
\* change no timestamp; entries go away only through clear or
\* clear_stale_updates; last_rebuild is changed only by record_rebuild and
\* never decreases.
C38_MarkAndRebuildFrame ==
    [][/\ (ApiMarkModulesUpdated \/ ApiRecordRebuild) => EntriesKept
       /\ ~((DOMAIN modules) \subseteq (DOMAIN modules'))
            => (ApiClear \/ \E max_age \in MaxAgeInputs : ApiClearStaleUpdates(max_age))
       /\ last_rebuild' # last_rebuild
            => /\ ApiRecordRebuild
               /\ IsSome(last_rebuild')
               /\ IsSome(last_rebuild)
                    => Unwrap(last_rebuild') >= Unwrap(last_rebuild)]_vars

\* record_rebuild has just run for the second time, over an applied and a
\* pending entry recorded at different times.
C38_Witness ==
    /\ last_call.op = "record_rebuild"
    /\ \E j, k \in DOMAIN last_call.before :
          /\ last_call.before[j].is_updated
          /\ ~last_call.before[k].is_updated
          /\ last_call.before[j].timestamp < last_call.before[k].timestamp
          /\ last_call.before[k].timestamp < now
    /\ last_rebuild = Some(now)
    /\ EntriesKeptSince(last_call.before)

-----------------------------------------------------------------------------
(* Module ids of different files *)

\* Two different source files with the same extension.
DistinctSourceFiles(p1, p2) ==
    /\ p1 # p2
    /\ IsSourceFile(p1)
    /\ IsSourceFile(p2)
    /\ Extension(p1) = Extension(p2)

\* C39: two distinct source files under <root>/src/ with the same extension
\* get distinct module ids: recording the second adds an entry and leaves
\* the entry of the first as it was.
C39_DistinctFilesDistinctIds ==
    [][(/\ PmRecord
        /\ last_call.op = "record_file_change"
        /\ DistinctSourceFiles(Unwrap(last_call.arg), Head(pm_input)))
          => /\ IsSome(last_call.ret) /\ IsSome(last_call'.ret)
             /\ Unwrap(last_call'.ret) # Unwrap(last_call.ret)
             /\ modules'[Unwrap(last_call.ret)] = modules[Unwrap(last_call.ret)]]_vars

-----------------------------------------------------------------------------
(* Static files: claims *)

\* The file lies in the project directory or below it.
InsideProjectRoot(components) ==
    /\ Len(components) > Len(Resolve(<<>>, ProjectRoot))
    /\ SubSeq(components, 1, Len(Resolve(<<>>, ProjectRoot)))
         = Resolve(<<>>, ProjectRoot)

\* C40: whatever the request path, ".." segments included, a file the asset
\* server returns is a regular file inside the project root.
C40_ServedFilesInsideRoot ==
    (/\ IsSome(http.response)
     /\ Unwrap(http.response).status = 200
     /\ Unwrap(http.request).url # ReservedUrl)
      => /\ ExistsAndIsFile(Unwrap(http.request).file)
         /\ InsideProjectRoot(Resolve(<<>>, JoinedPath(Unwrap(http.request).url)))

====
